---- MODULE Spec2Model ----
(***************************************************************************)
(* Session lifecycle (AuthProvider, AuthGuard), the authenticated REST     *)
(* client (ApiClient) and the library page (VideoLibrary, VideoUpload,     *)
(* GlobalSearch) of the video library front-end.                           *)
(*                                                                         *)
(* Time is counted in units of ten minutes.  The identity provider         *)
(* (Firebase Auth) and the REST server are the environment: their answers  *)
(* are chosen nondeterministically.                                        *)
(***************************************************************************)
EXTENDS Integers, Sequences, FiniteSets, TLC

\* ---------------------------------------------------------------- bounds
MaxTime == 10           \* the clock stops here
MaxTokens == 3          \* credentials the provider issues in one run
MaxPending == 2         \* renewals in flight at once, per user
MaxInFlight == 1        \* REST requests in flight at once
MaxUploads == 1         \* uploads the library page completes in one run

\* ------------------------------------------------------ program constants
RefreshInterval == 5    \* setInterval(refreshToken, 50 * 60 * 1000)
TokenLifetime == 6      \* "tokens expire after 1 hour"

DateNowEpoch == 1000    \* Date.now(), in milliseconds, when the page loads

Users == {"A", "B"}
NoUser == "none"
NoToken == [uid |-> "none", exp |-> 0, n |-> 0]

\* A credential an earlier page load left in localStorage, long expired.
StaleToken == [uid |-> "A", exp |-> 0, n |-> 0]

\* Expiry times of the credential the provider SDK restored from an earlier
\* page load: already expired, or valid for another twenty minutes.
InitExps == {0, 2}

VARIABLES
  user,            \* useState<User | null>
  token,           \* useState<string | null>
  loading,         \* useState(true)
  persisted,       \* localStorage["firebase_token"]
  timers,          \* the intervals of the refresh effect still scheduled
  notified,        \* the subscription has delivered its first notification
  fbUser,          \* auth.currentUser of the identity provider
  fbCache,         \* the provider SDK's cached credential of each user
  pendingAuth,     \* handlers suspended in `await user.getIdToken()`
  pendingRefresh,  \* refreshToken calls suspended in `await user.getIdToken(true)`
  now,             \* the clock
  minted,          \* serial number of the last credential issued
  inflight,        \* REST requests sent and not yet answered
  page,            \* the page whose tree is mounted
  subs,            \* onAuthStateChanged subscriptions not yet unsubscribed
  staleAuth,       \* suspended handlers of providers since unmounted
  staleRefresh,    \* suspended refreshToken calls of providers since unmounted
  videos,          \* VideoLibrary: useState<VideoItem[]>([])
  loadingVideos,   \* VideoLibrary: useState(true), `loading`
  searchResults,   \* VideoLibrary: useState<VideoItem[]>([])
  error,           \* VideoLibrary: useState<string>("")
  deleteError,     \* VideoLibrary: useState<string>("")
  deletingId,      \* VideoLibrary: useState<string | null>(null)
  uploading,       \* VideoUpload: useState(false)
  dateNow,         \* what Date.now() reads
  last             \* the step just taken and what it handed to its caller

session == <<user, token, loading, persisted, timers>>
provider == <<notified, fbUser, fbCache, pendingAuth, pendingRefresh, minted>>
mounts == <<page, subs, staleAuth, staleRefresh>>
library == <<videos, loadingVideos, searchResults, error, deleteError,
             deletingId, uploading, dateNow>>
vars == <<user, token, loading, persisted, timers, notified, fbUser, fbCache,
          pendingAuth, pendingRefresh, now, minted, inflight, page, subs,
          staleAuth, staleRefresh, videos, loadingVideos, searchResults, error,
          deleteError, deletingId, uploading, dateNow, last>>

\* ------------------------------------------------------ identity provider

\* A credential issued now: a new serial number, expiring one lifetime on.
Mint(u) == [uid |-> u, exp |-> now + TokenLifetime, n |-> minted + 1]

\* getIdToken() without forceRefresh answers from the SDK's cache while the
\* cached credential has not expired.
CacheValid(cache, u) == cache[u] # NoToken /\ now < cache[u].exp

Expired(tok) == now >= tok.exp

\* --------------------------------------------------------------- AuthGuard

\* What AuthGuard renders for a session: the spinner, the login form (whose
\* buttons call signIn and signUp) or the protected page (whose header
\* button calls logout).

AuthGuardBuggy(u, l) ==
  IF u = NoUser THEN "LoginForm"
  ELSE IF l THEN "Loader"
  ELSE "children"

AuthGuard(u, l) ==
  IF l THEN "Loader"
  ELSE IF u = NoUser THEN "LoginForm"
  ELSE "children"

\* ------------------------------------------------------------ AuthProvider

\* What a step of the session manager leaves in `last`: the operation, what
\* the onAuthStateChanged handler did in it ("none", "await", "set",
\* "clear"), the user and credential it handled, whether the provider
\* accepted the request, and the error thrown to the caller.
Step(op, handler, note, tok, accepted, err) ==
  [op |-> op, handler |-> handler, note |-> note, tok |-> tok,
   accepted |-> accepted, err |-> err]

\* An interval of the refresh effect: the user its refreshToken closes over
\* and the time of its next firing.
Interval(u, due) == [u |-> u, due |-> due]

\* useEffect(..., [user]): when the user changed, the cleanup of the last
\* run clears the interval that run scheduled, and the new run schedules an
\* interval when there is a user.
RefreshEffectBuggy(u) ==
  timers' = IF u = user THEN timers
            ELSE timers \cup
                 (IF u = NoUser THEN {} ELSE {Interval(u, now + RefreshInterval)})

RefreshEffect(u) ==
  timers' = IF u = user THEN timers
            ELSE {t \in timers : t.u # user} \cup
                 (IF u = NoUser THEN {} ELSE {Interval(u, now + RefreshInterval)})

\* The handler's try block after the await: the credential arrived.
HandlerSetBuggy(u, tok) ==
  /\ token' = tok
  /\ user' = u
  /\ persisted' = persisted
  /\ loading' = FALSE
  /\ RefreshEffect(u)

HandlerSet(u, tok) ==
  /\ token' = tok
  /\ user' = u
  /\ persisted' = tok
  /\ loading' = FALSE
  /\ RefreshEffect(u)

\* The handler's catch block and its else branch (no user) do the same.
HandlerClear ==
  /\ token' = NoToken
  /\ user' = NoUser
  /\ persisted' = NoToken
  /\ loading' = FALSE
  /\ RefreshEffect(NoUser)

\* The onAuthStateChanged callback, up to its first suspension.  u is the
\* user of the notification, cache the provider's cache at that moment, op
\* the operation that made the provider notify.
OnAuthStateChanged(u, cache, op) ==
  IF u = NoUser
  THEN /\ HandlerClear
       /\ pendingAuth' = pendingAuth
       /\ last' = Step(op, "clear", u, NoToken, TRUE, "none")
  ELSE IF CacheValid(cache, u)
  THEN /\ HandlerSet(u, cache[u])
       /\ pendingAuth' = pendingAuth
       /\ last' = Step(op, "set", u, cache[u], TRUE, "none")
  ELSE /\ pendingAuth' = [pendingAuth EXCEPT ![u] = @ + 1]
       /\ UNCHANGED session
       /\ last' = Step(op, "await", u, NoToken, TRUE, "none")

\* The subscription's first notification: the user the provider restored.
InitialNotify ==
  /\ ~notified
  /\ notified' = TRUE
  /\ OnAuthStateChanged(fbUser, fbCache, "subscribe")
  /\ UNCHANGED <<fbUser, fbCache, pendingRefresh, now, minted, inflight, mounts, library>>

\* A suspended handler resumes with a credential fetched over the network.
AuthFetchOk(u) ==
  /\ pendingAuth[u] > 0
  /\ minted < MaxTokens
  /\ pendingAuth' = [pendingAuth EXCEPT ![u] = @ - 1]
  /\ minted' = minted + 1
  /\ fbCache' = [fbCache EXCEPT ![u] = Mint(u)]
  /\ HandlerSet(u, Mint(u))
  /\ last' = Step("getIdToken", "set", u, Mint(u), TRUE, "none")
  /\ UNCHANGED <<notified, fbUser, pendingRefresh, now, inflight, mounts, library>>

\* A suspended handler resumes with the fetch rejected.
AuthFetchFail(u) ==
  /\ pendingAuth[u] > 0
  /\ pendingAuth' = [pendingAuth EXCEPT ![u] = @ - 1]
  /\ HandlerClear
  /\ last' = Step("getIdToken", "clear", u, NoToken, FALSE, "none")
  /\ UNCHANGED <<notified, fbUser, fbCache, pendingRefresh, now, minted, inflight, mounts, library>>

\* The provider has a new current user u (or none): it caches the
\* credential that came with a sign-in and notifies the subscription.
ProviderChange(u, op) ==
  /\ fbUser' = u
  /\ IF u = NoUser
     THEN /\ UNCHANGED <<fbCache, minted>>
          /\ OnAuthStateChanged(NoUser, fbCache, op)
     ELSE /\ minted < MaxTokens
          /\ minted' = minted + 1
          /\ fbCache' = [fbCache EXCEPT ![u] = Mint(u)]
          /\ OnAuthStateChanged(u, fbCache', op)
  /\ UNCHANGED <<notified, pendingRefresh, now, inflight, mounts, library>>

\* The provider accepted the credentials of the login form.  It notifies
\* when its current user changed; signing in the user it already has only
\* renews the cached credential.
ProviderSignIn(u, op) ==
  /\ AuthGuard(user, loading) = "LoginForm"
  /\ IF fbUser # u
     THEN ProviderChange(u, op)
     ELSE /\ minted < MaxTokens
          /\ minted' = minted + 1
          /\ fbCache' = [fbCache EXCEPT ![u] = Mint(u)]
          /\ last' = Step(op, "none", u, NoToken, TRUE, "none")
          /\ UNCHANGED <<session, notified, fbUser, pendingAuth, pendingRefresh,
                         now, inflight, mounts, library>>

\* signIn / signUp, accepted by the provider.
SignInOk(u) == ProviderSignIn(u, "signIn")

SignUpOk(u) == ProviderSignIn(u, "signUp")

\* signIn / signUp, rejected by the provider: the await throws to the caller.
AuthRejectedBuggy(op) ==
  /\ AuthGuard(user, loading) = "LoginForm"
  /\ last' = Step(op, "none", NoUser, NoToken, FALSE, "none")
  /\ UNCHANGED <<session, provider, now, inflight, mounts, library>>

AuthRejected(op) ==
  /\ AuthGuard(user, loading) = "LoginForm"
  /\ last' = Step(op, "none", NoUser, NoToken, FALSE, "AuthError")
  /\ UNCHANGED <<session, provider, now, inflight, mounts, library>>

SignInRejected == AuthRejected("signIn")

SignUpRejected == AuthRejected("signUp")

\* logout, the provider's signOut succeeding: the provider has no user any
\* more and notifies when it had one.
LogoutOk ==
  /\ AuthGuard(user, loading) = "children"
  /\ IF fbUser # NoUser
     THEN ProviderChange(NoUser, "logout")
     ELSE /\ last' = Step("logout", "none", NoUser, NoToken, TRUE, "none")
          /\ UNCHANGED <<session, provider, now, inflight, mounts, library>>

\* logout, the provider's signOut failing: the await throws to the caller.
LogoutFailed ==
  /\ AuthGuard(user, loading) = "children"
  /\ last' = Step("logout", "none", NoUser, NoToken, FALSE, "SignOutError")
  /\ UNCHANGED <<session, provider, now, inflight, mounts, library>>

\* The provider's current user changes without this page asking: another
\* tab of the application signed in or out.
ExternalChange(u) ==
  /\ notified
  /\ fbUser # u
  /\ ProviderChange(u, "external")

\* The interval fires: refreshToken runs up to its await.
TimerFire(t) ==
  /\ t \in timers
  /\ now = t.due
  /\ pendingRefresh[t.u] < MaxPending
  /\ pendingRefresh' = [pendingRefresh EXCEPT ![t.u] = @ + 1]
  /\ timers' = (timers \ {t}) \cup {Interval(t.u, now + RefreshInterval)}
  /\ last' = Step("timer", "none", t.u, NoToken, TRUE, "none")
  /\ UNCHANGED <<user, token, loading, persisted, notified, fbUser, fbCache,
                 pendingAuth, now, minted, inflight, mounts, library>>

\* refreshToken resumes with the renewed credential.
RefreshOkBuggy(u) ==
  /\ pendingRefresh[u] > 0
  /\ minted < MaxTokens
  /\ pendingRefresh' = [pendingRefresh EXCEPT ![u] = @ - 1]
  /\ minted' = minted + 1
  /\ fbCache' = [fbCache EXCEPT ![u] = Mint(u)]
  /\ token' = IF pendingRefresh[u] > 1 THEN token ELSE Mint(u)
  /\ persisted' = Mint(u)
  /\ last' = Step("refresh", "none", u, Mint(u), TRUE, "none")
  /\ UNCHANGED <<user, loading, timers, notified, fbUser, pendingAuth, now, inflight, mounts, library>>

RefreshOk(u) ==
  /\ pendingRefresh[u] > 0
  /\ minted < MaxTokens
  /\ pendingRefresh' = [pendingRefresh EXCEPT ![u] = @ - 1]
  /\ minted' = minted + 1
  /\ fbCache' = [fbCache EXCEPT ![u] = Mint(u)]
  /\ token' = Mint(u)
  /\ persisted' = Mint(u)
  /\ last' = Step("refresh", "none", u, Mint(u), TRUE, "none")
  /\ UNCHANGED <<user, loading, timers, notified, fbUser, pendingAuth, now, inflight, mounts, library>>

\* refreshToken resumes with the renewal rejected: the catch block logs.
RefreshFailedBuggy(u) ==
  /\ pendingRefresh[u] > 0
  /\ pendingRefresh' = [pendingRefresh EXCEPT ![u] = @ - 1]
  /\ last' = Step("refresh", "none", u, NoToken, FALSE, "none")
  /\ HandlerClear
  /\ UNCHANGED <<notified, fbUser, fbCache, pendingAuth, now, minted, inflight, mounts, library>>

RefreshFailed(u) ==
  /\ pendingRefresh[u] > 0
  /\ pendingRefresh' = [pendingRefresh EXCEPT ![u] = @ - 1]
  /\ last' = Step("refresh", "none", u, NoToken, FALSE, "none")
  /\ UNCHANGED <<session, notified, fbUser, fbCache, pendingAuth, now, minted, inflight, mounts, library>>

\* Ten minutes pass.  A due interval fires before the clock moves on.
Tick ==
  /\ notified
  /\ now < MaxTime
  /\ \A t \in timers : now < t.due
  /\ now' = now + 1
  /\ last' = Step("tick", "none", NoUser, NoToken, TRUE, "none")
  /\ UNCHANGED <<session, provider, inflight, mounts, library>>

\* --------------------------------------------------------------- ApiClient

Methods == {"uploadVideo", "getUserVideos", "getVideo", "globalSearch",
            "searchInVideo", "getVideoStreamUrl", "deleteVideo", "testAuth"}

\* The text each method puts in front of the status of a failed response.
Prefix(m) ==
  CASE m = "uploadVideo" -> "Upload failed: "
    [] m = "getUserVideos" -> "Failed to fetch videos: "
    [] m = "getVideo" -> "Failed to fetch video: "
    [] m = "globalSearch" -> "Search failed: "
    [] m = "searchInVideo" -> "Search failed: "
    [] m = "getVideoStreamUrl" -> "Failed to get stream URL: "
    [] m = "deleteVideo" -> "Failed to delete video: "
    [] m = "testAuth" -> "Auth test failed: "

\* What the server may answer: a status and a body text.
StatusCodes == {200, 204, 299, 300, 404, 500}
Bodies == {"[]", "gone"}

\* The JSON texts among the bodies the server sends.
JsonTexts == {"[]", "[2,1]", "[3]", "{video_id:3}", "[hit2]"}

\* response.json() rejects a body that is no JSON text.
IsJson(body) == body \in JsonTexts

\* response.ok
ResponseOkBuggy(status) == status < 400

ResponseOk(status) == 200 <= status /\ status <= 299

\* `${prefix}${response.status} - ${errorText}`, as the pieces it joins.
HttpErrorMessage(m, status, body) == <<Prefix(m), ToString(status), " - ", body>>

NoTokenMessage == <<"No authentication token found">>

Pieces(msg) == {msg[i] : i \in DOMAIN msg}

\* getAuthHeaders: the credential read from localStorage at call time goes
\* into the Authorization header; with none to read, the method throws.
GetAuthHeadersBuggy(stored) ==
  [ok |-> TRUE, bearer |-> stored, contentType |-> "application/json"]

GetAuthHeaders(stored) ==
  IF stored = NoToken
  THEN [ok |-> FALSE, bearer |-> NoToken, contentType |-> "application/json"]
  ELSE [ok |-> TRUE, bearer |-> stored, contentType |-> "application/json"]

\* getAuthHeadersForFormData: the same, without a Content-Type.
GetAuthHeadersForFormData(stored) ==
  IF stored = NoToken
  THEN [ok |-> FALSE, bearer |-> NoToken, contentType |-> "unset"]
  ELSE [ok |-> TRUE, bearer |-> stored, contentType |-> "unset"]

\* The headers a method asks for before it sends anything.
HeadersOf(m, stored) ==
  IF m = "uploadVideo" THEN GetAuthHeadersForFormData(stored)
  ELSE GetAuthHeaders(stored)

\* What a step of the client leaves in `last`: "apiCall" for a method
\* called, "apiAnswer" for a response handled, "apiNetErr" for a fetch that
\* rejected; out is "sent", "returned" or "thrown".
ApiStep(op, m, out, status, body, message) ==
  [op |-> op, m |-> m, out |-> out, status |-> status, body |-> body,
   message |-> message]

\* A method is called: it reads the headers, throws when there are none,
\* and otherwise sends its one request and suspends on the answer.
ApiCall(m) ==
  LET h == HeadersOf(m, persisted) IN
  /\ IF h.ok
     THEN /\ Len(inflight) < MaxInFlight
          /\ inflight' = Append(inflight, [m |-> m, bearer |-> h.bearer])
          /\ last' = ApiStep("apiCall", m, "sent", 0, "", <<>>)
     ELSE /\ inflight' = inflight
          /\ last' = ApiStep("apiCall", m, "thrown", 0, "", NoTokenMessage)
  /\ UNCHANGED <<session, provider, now, mounts, library>>

Remove(seq, i) == [j \in 1..(Len(seq) - 1) |-> IF j < i THEN seq[j] ELSE seq[j + 1]]

\* What the method hands to its caller for an answer of the server.
Outcome(m, status, body) ==
  IF ~ResponseOk(status)
  THEN ApiStep("apiAnswer", m, "thrown", status, body, HttpErrorMessage(m, status, body))
  ELSE IF m = "deleteVideo"
  THEN ApiStep("apiAnswer", m, "returned", status, body, <<>>)
  ELSE IF ~IsJson(body)
  THEN ApiStep("apiAnswer", m, "thrown", status, body, <<"SyntaxError">>)
  ELSE ApiStep("apiAnswer", m, "returned", status, body, <<>>)

\* The server answers the i-th request in flight.
ApiRespondBuggy(i, status, body) ==
  /\ i \in DOMAIN inflight
  /\ IF status >= 500
     THEN /\ inflight' = Append(Remove(inflight, i), inflight[i])
          /\ last' = ApiStep("apiAnswer", inflight[i].m, "sent", status, body, <<>>)
     ELSE /\ inflight' = Remove(inflight, i)
          /\ last' = Outcome(inflight[i].m, status, body)
  /\ UNCHANGED <<session, provider, now, mounts, library>>

ApiRespond(i, status, body) ==
  /\ i \in DOMAIN inflight
  /\ inflight' = Remove(inflight, i)
  /\ last' = Outcome(inflight[i].m, status, body)
  /\ UNCHANGED <<session, provider, now, mounts, library>>

\* fetch rejects: the request never got an answer.
ApiNetworkError(i) ==
  /\ i \in DOMAIN inflight
  /\ inflight' = Remove(inflight, i)
  /\ last' = ApiStep("apiNetErr", inflight[i].m, "thrown", 0, "",
                     <<"TypeError: Failed to fetch">>)
  /\ UNCHANGED <<session, provider, now, mounts, library>>

\* ------------------------------------------------------------- the server

Statuses == {"PENDING", "INDEXING", "COMPLETED", "FAILED"}
Titles == {"Test", "Clip"}

\* A JavaScript number and a JavaScript string of its digits: `===` tells
\* them apart.
Num(n) == [t |-> "number", n |-> n]
Str(n) == [t |-> "string", n |-> n]

\* Number.prototype.toString
NumToString(x) == Str(x.n)

\* Rows of the table `videos` as GET /api/videos serialises them; the
\* thumbnail column is nullable and the second row comes without it.
Row1 == [id |-> Num(1), user_id |-> "A", title |-> "Test",
         minio_path |-> "uploads/1.mp4", thumbnail |-> "thumbs/1.jpg",
         indexing_status |-> "COMPLETED", created_at |-> "2024-01-01",
         updated_at |-> "2024-01-03"]
Row2 == [id |-> Num(2), user_id |-> "A", title |-> "Clip",
         minio_path |-> "uploads/2.mp4",
         indexing_status |-> "INDEXING", created_at |-> "2024-01-02",
         updated_at |-> "2024-01-02"]
Row3 == [id |-> Num(3), user_id |-> "A", title |-> "Test",
         minio_path |-> "uploads/3.mp4", thumbnail |-> "thumbs/3.jpg",
         indexing_status |-> "FAILED", created_at |-> "2024-01-04",
         updated_at |-> "2024-01-05"]

\* The ids an entry of the page can carry: a row's, a hit's, or the clock's.
VideoIds ==
  {Num(1), Num(2), Num(3), Str(2)} \cup {Str(DateNowEpoch + k) : k \in 1..MaxUploads}

\* A hit of POST /api/search/global.
Hit2 == [video_id |-> Num(2), title |-> "Clip", similarity |-> 90,
         timestamp |-> 75]

\* response.json(): the value a JSON text stands for.
ParseJson(body) ==
  CASE body = "[]" -> <<>>
    [] body = "[2,1]" -> <<Row2, Row1>>
    [] body = "[3]" -> <<Row3>>
    [] body = "[hit2]" -> <<Hit2>>
    [] body = "{video_id:3}" -> [video_id |-> Num(3)]

\* What the server sends back to each method the library page calls; "gone"
\* is the text of an error page.
BodiesOf(m) ==
  CASE m = "getUserVideos" -> {"[]", "[2,1]", "[3]", "gone"}
    [] m = "uploadVideo" -> {"{video_id:3}", "gone"}
    [] m = "globalSearch" -> {"[]", "[hit2]", "gone"}
    [] m = "deleteVideo" -> {"", "gone"}

\* ------------------------------------------- ApiClient: the record mapping

\* video.f of a parsed JSON object.
Field(video, f) == IF f \in DOMAIN video THEN video[f] ELSE "undefined"

\* { ...video, indexingStatus: video.indexing_status, createdAt:
\*   video.created_at, minioPath: video.minio_path, thumbnail: video.thumbnail }
MapVideoBuggy(video) ==
  [f \in {"indexingStatus", "createdAt", "minioPath", "thumbnail"} |->
     CASE f = "indexingStatus" -> Field(video, "indexing_status")
       [] f = "createdAt" -> Field(video, "created_at")
       [] f = "minioPath" -> Field(video, "minio_path")
       [] f = "thumbnail" -> Field(video, "thumbnail")]

MapVideo(video) ==
  [f \in DOMAIN video \cup {"indexingStatus", "createdAt", "minioPath", "thumbnail"} |->
     CASE f = "indexingStatus" -> Field(video, "indexing_status")
       [] f = "createdAt" -> Field(video, "created_at")
       [] f = "minioPath" -> Field(video, "minio_path")
       [] f = "thumbnail" -> Field(video, "thumbnail")
       [] OTHER -> video[f]]

\* videos.map(...) of getUserVideos.
GetUserVideos(rows) == [i \in DOMAIN rows |-> MapVideo(rows[i])]

\* ------------------------------------- VideoLibrary, VideoUpload, GlobalSearch

\* What a step of the library page leaves in `last`: the handler, the
\* gateway method it calls, the argument it was called with, and what the
\* method handed back ("sent" while the handler is suspended on it).
ViewStep(op, arg, r) ==
  [op |-> op, m |-> r.m, arg |-> arg, out |-> r.out, status |-> r.status,
   body |-> r.body, message |-> r.message]

\* The library page is on screen: the route is /library and AuthGuard
\* renders its children.
LibraryShown == page = "library" /\ AuthGuard(user, loading) = "children"

\* A request of method m is in flight.
Awaiting(m) == \E i \in DOMAIN inflight : inflight[i].m = m

\* VideoLibrary's effect has run: loadVideos was called when the page mounted.
EffectRan == ~loadingVideos \/ Awaiting("getUserVideos")

\* What a gateway method does when a handler calls it: it throws without a
\* credential and otherwise sends one request that carries the credential.
Called(m) ==
  IF HeadersOf(m, persisted).ok
  THEN ApiStep("apiCall", m, "sent", 0, "", <<>>)
  ELSE ApiStep("apiCall", m, "thrown", 0, "", NoTokenMessage)

Sent(m, arg) ==
  IF HeadersOf(m, persisted).ok
  THEN Append(inflight, [m |-> m, bearer |-> HeadersOf(m, persisted).bearer,
                         arg |-> arg])
  ELSE inflight

\* fetch rejected.
FetchRejected(m) ==
  ApiStep("apiNetErr", m, "thrown", 0, "", <<"TypeError: Failed to fetch">>)

\* Everything a request of method m may come back with: a 200 with any of
\* the method's bodies, a 404 with an error page, or no answer at all.
Results(m) ==
  {Outcome(m, 200, body) : body \in BodiesOf(m)}
    \cup {Outcome(m, 404, "gone"), FetchRejected(m)}

\* The list the grid shows, with a delete button on every card.
Displayed == IF Len(searchResults) > 0 THEN searchResults ELSE videos

\* loadVideos up to its await: the effect of VideoLibrary on mount, and the
\* Retry button under the error.
LoadVideos ==
  /\ LibraryShown
  /\ \/ loadingVideos /\ ~Awaiting("getUserVideos")
     \/ ~loadingVideos /\ error # <<>>
  /\ Len(inflight) < MaxInFlight
  /\ inflight' = Sent("getUserVideos", "none")
  /\ IF Called("getUserVideos").out = "sent"
     THEN loadingVideos' = TRUE /\ error' = <<>>
     ELSE /\ loadingVideos' = FALSE
          /\ error' = <<"Failed to load videos: ">> \o NoTokenMessage
  /\ last' = ViewStep("loadVideos", "none", Called("getUserVideos"))
  /\ UNCHANGED <<session, provider, now, mounts, videos, searchResults,
                 deleteError, deletingId, uploading, dateNow>>

\* loadVideos after its await.
LoadVideosDoneBuggy(i, r) ==
  /\ i \in DOMAIN inflight
  /\ inflight[i].m = "getUserVideos"
  /\ r \in Results("getUserVideos")
  /\ inflight' = Remove(inflight, i)
  /\ IF r.out = "returned"
     THEN videos' = GetUserVideos(ParseJson(r.body)) /\ error' = error
     ELSE videos' = videos /\ error' = <<"Failed to load videos: ">> \o r.message
  /\ persisted' = IF r.out = "returned" THEN persisted ELSE NoToken
  /\ loadingVideos' = FALSE
  /\ last' = ViewStep("loadVideos", "none", r)
  /\ UNCHANGED <<user, token, loading, timers, provider, now, mounts,
                 searchResults, deleteError, deletingId, uploading, dateNow>>

LoadVideosDone(i, r) ==
  /\ i \in DOMAIN inflight
  /\ inflight[i].m = "getUserVideos"
  /\ r \in Results("getUserVideos")
  /\ inflight' = Remove(inflight, i)
  /\ IF r.out = "returned"
     THEN videos' = GetUserVideos(ParseJson(r.body)) /\ error' = error
     ELSE videos' = videos /\ error' = <<"Failed to load videos: ">> \o r.message
  /\ loadingVideos' = FALSE
  /\ last' = ViewStep("loadVideos", "none", r)
  /\ UNCHANGED <<session, provider, now, mounts, searchResults, deleteError,
                 deletingId, uploading, dateNow>>

\* The entry handleUpload builds from the response, with the id
\* handleVideoUpload gives it.
NewVideo(title, result, at) ==
  [id |-> Str(at), title |-> title, thumbnail |-> "placeholder",
   duration |-> "0:00", indexingStatus |-> "PENDING", createdAt |-> "today",
   minioPath |-> <<"/videos/", result.video_id.n>>]

\* setVideos((prev) => [videoWithId, ...prev])
HandleVideoUploadBuggy(prev, videoWithId) == Append(prev, videoWithId)

HandleVideoUpload(prev, videoWithId) == <<videoWithId>> \o prev

\* handleUpload up to its await; the button is disabled without a title and
\* while an upload is running.
HandleUpload(title) ==
  /\ LibraryShown
  /\ EffectRan
  /\ ~uploading
  /\ dateNow < DateNowEpoch + MaxUploads
  /\ Len(inflight) < MaxInFlight
  /\ inflight' = Sent("uploadVideo", title)
  /\ uploading' = (Called("uploadVideo").out = "sent")
  /\ last' = ViewStep("handleUpload", title, Called("uploadVideo"))
  /\ UNCHANGED <<session, provider, now, mounts, videos, loadingVideos,
                 searchResults, error, deleteError, deletingId, dateNow>>

\* handleUpload after its await; the clock has moved on by then.
HandleUploadDone(i, r) ==
  /\ i \in DOMAIN inflight
  /\ inflight[i].m = "uploadVideo"
  /\ r \in Results("uploadVideo")
  /\ inflight' = Remove(inflight, i)
  /\ dateNow' = dateNow + 1
  /\ videos' = IF r.out = "returned"
               THEN HandleVideoUpload(videos,
                      NewVideo(inflight[i].arg, ParseJson(r.body), dateNow'))
               ELSE videos
  /\ uploading' = FALSE
  /\ last' = ViewStep("handleUpload", inflight[i].arg, r)
  /\ UNCHANGED <<session, provider, now, mounts, loadingVideos, searchResults,
                 error, deleteError, deletingId>>

\* prev.filter((v) => v.id !== videoId)
Filter(prev, videoId) == SelectSeq(prev, LAMBDA v : v.id # videoId)

\* handleDelete up to its await, from the delete button of a card.
HandleDelete(videoId) ==
  /\ LibraryShown
  /\ ~loadingVideos
  /\ \E k \in DOMAIN Displayed : Displayed[k].id = videoId
  /\ Len(inflight) < MaxInFlight
  /\ inflight' = Sent("deleteVideo", videoId)
  /\ IF Called("deleteVideo").out = "sent"
     THEN deletingId' = videoId /\ deleteError' = <<>>
     ELSE deletingId' = "null" /\ deleteError' = NoTokenMessage
  /\ last' = ViewStep("handleDelete", videoId, Called("deleteVideo"))
  /\ UNCHANGED <<session, provider, now, mounts, videos, loadingVideos,
                 searchResults, error, uploading, dateNow>>

\* handleDelete after its await.
HandleDeleteDoneBuggy(i, r) ==
  /\ i \in DOMAIN inflight
  /\ inflight[i].m = "deleteVideo"
  /\ r \in Results("deleteVideo")
  /\ inflight' = Remove(inflight, i)
  /\ videos' = Filter(videos, inflight[i].arg)
  /\ deleteError' = IF r.out = "returned" THEN deleteError ELSE r.message
  /\ deletingId' = "null"
  /\ last' = ViewStep("handleDelete", inflight[i].arg, r)
  /\ UNCHANGED <<session, provider, now, mounts, loadingVideos, searchResults,
                 error, uploading, dateNow>>

HandleDeleteDone(i, r) ==
  /\ i \in DOMAIN inflight
  /\ inflight[i].m = "deleteVideo"
  /\ r \in Results("deleteVideo")
  /\ inflight' = Remove(inflight, i)
  /\ IF r.out = "returned"
     THEN videos' = Filter(videos, inflight[i].arg) /\ deleteError' = deleteError
     ELSE videos' = videos /\ deleteError' = r.message
  /\ deletingId' = "null"
  /\ last' = ViewStep("handleDelete", inflight[i].arg, r)
  /\ UNCHANGED <<session, provider, now, mounts, loadingVideos, searchResults,
                 error, uploading, dateNow>>

\* The entry handleSearch builds from a hit.
SearchResult(result) ==
  [id |-> NumToString(result.video_id), title |-> result.title,
   thumbnail |-> "placeholder", duration |-> "0:00",
   indexingStatus |-> "COMPLETED", createdAt |-> "today", minioPath |-> "",
   relevanceScore |-> result.similarity, matchedTimestamp |-> result.timestamp]

\* handleSearch up to its await; the button is disabled while a search is
\* running.  A call that throws is logged and nothing else.
HandleSearch ==
  /\ LibraryShown
  /\ EffectRan
  /\ ~Awaiting("globalSearch")
  /\ Len(inflight) < MaxInFlight
  /\ inflight' = Sent("globalSearch", "query")
  /\ last' = ViewStep("handleSearch", "query", Called("globalSearch"))
  /\ UNCHANGED <<session, provider, now, mounts, library>>

\* handleSearch after its await.
HandleSearchDone(i, r) ==
  /\ i \in DOMAIN inflight
  /\ inflight[i].m = "globalSearch"
  /\ r \in Results("globalSearch")
  /\ inflight' = Remove(inflight, i)
  /\ searchResults' =
       IF r.out = "returned"
       THEN [k \in DOMAIN ParseJson(r.body) |-> SearchResult(ParseJson(r.body)[k])]
       ELSE searchResults
  /\ last' = ViewStep("handleSearch", "query", r)
  /\ UNCHANGED <<session, provider, now, mounts, videos, loadingVideos, error,
                 deleteError, deletingId, uploading, dateNow>>

\* clearSearch, from the Clear button next to the results.
ClearSearch ==
  /\ LibraryShown
  /\ Len(searchResults) > 0
  /\ searchResults' = <<>>
  /\ last' = ViewStep("clearSearch", "none", ApiStep("none", "none", "none", 0, "", <<>>))
  /\ UNCHANGED <<session, provider, now, mounts, inflight, videos, loadingVideos,
                 error, deleteError, deletingId, uploading, dateNow>>

\* ------------------------------------------- VideoLibrary: the status badge

\* getStatusIcon: the icon component and its colour class.
GetStatusIcon(status) ==
  CASE status = "COMPLETED" -> <<"CheckCircle", "text-green-600">>
    [] status = "INDEXING" -> <<"Clock", "text-yellow-600 animate-pulse">>
    [] status = "PENDING" -> <<"Clock", "text-gray-600">>
    [] status = "FAILED" -> <<"AlertCircle", "text-red-600">>

\* getStatusText
GetStatusTextBuggy(status) ==
  CASE status = "COMPLETED" -> "Ready"
    [] status = "INDEXING" -> "Processing..."
    [] status = "PENDING" -> "Processing..."
    [] status = "FAILED" -> "Failed"

GetStatusText(status) ==
  CASE status = "COMPLETED" -> "Ready"
    [] status = "INDEXING" -> "Processing..."
    [] status = "PENDING" -> "Queued"
    [] status = "FAILED" -> "Failed"

\* getStatusVariant
GetStatusVariant(status) ==
  CASE status = "COMPLETED" -> "default"
    [] status = "INDEXING" -> "secondary"
    [] status = "PENDING" -> "outline"
    [] status = "FAILED" -> "destructive"

\* The badge the grid draws on a card.
Badge(video) ==
  [variant |-> GetStatusVariant(video.indexingStatus),
   icon |-> GetStatusIcon(video.indexingStatus),
   text |-> GetStatusText(video.indexingStatus)]

\* ------------------------------------------------- pages and their providers

\* /library (LibraryPage) and /video/[id] (VideoPage): each wraps its content
\* in an AuthProvider of its own.
Pages == {"library", "video"}

\* Client-side navigation to page p.  In one commit React unmounts the tree
\* of the old page and mounts the tree of the new one: the cleanups of the
\* old AuthProvider unsubscribe and clear its interval, its handlers and
\* renewals that are suspended stay suspended, and a new AuthProvider starts
\* from its initial state and subscribes.  The old page's state is gone and
\* what its requests come back with is set on components no longer mounted.
NavigateBuggy(p) ==
  /\ p # page
  /\ \A u \in Users : /\ staleAuth[u] + pendingAuth[u] <= MaxPending
                      /\ staleRefresh[u] + pendingRefresh[u] <= MaxPending
  /\ page' = p
  /\ subs' = subs + 1
  /\ staleAuth' = [u \in Users |-> staleAuth[u] + pendingAuth[u]]
  /\ staleRefresh' = [u \in Users |-> staleRefresh[u] + pendingRefresh[u]]
  /\ pendingAuth' = [u \in Users |-> 0]
  /\ pendingRefresh' = [u \in Users |-> 0]
  /\ timers' = {t \in timers : t.u # user}
  /\ user' = NoUser
  /\ token' = NoToken
  /\ loading' = TRUE
  /\ notified' = FALSE
  /\ inflight' = <<>>
  /\ videos' = <<>>
  /\ loadingVideos' = TRUE
  /\ searchResults' = <<>>
  /\ error' = <<>>
  /\ deleteError' = <<>>
  /\ deletingId' = "null"
  /\ uploading' = FALSE
  /\ last' = Step("navigate", "none", NoUser, NoToken, TRUE, "none")
  /\ UNCHANGED <<persisted, fbUser, fbCache, now, minted, dateNow>>

Navigate(p) ==
  /\ p # page
  /\ \A u \in Users : /\ staleAuth[u] + pendingAuth[u] <= MaxPending
                      /\ staleRefresh[u] + pendingRefresh[u] <= MaxPending
  /\ page' = p
  /\ subs' = (subs - 1) + 1
  /\ staleAuth' = [u \in Users |-> staleAuth[u] + pendingAuth[u]]
  /\ staleRefresh' = [u \in Users |-> staleRefresh[u] + pendingRefresh[u]]
  /\ pendingAuth' = [u \in Users |-> 0]
  /\ pendingRefresh' = [u \in Users |-> 0]
  /\ timers' = {t \in timers : t.u # user}
  /\ user' = NoUser
  /\ token' = NoToken
  /\ loading' = TRUE
  /\ notified' = FALSE
  /\ inflight' = <<>>
  /\ videos' = <<>>
  /\ loadingVideos' = TRUE
  /\ searchResults' = <<>>
  /\ error' = <<>>
  /\ deleteError' = <<>>
  /\ deletingId' = "null"
  /\ uploading' = FALSE
  /\ last' = Step("navigate", "none", NoUser, NoToken, TRUE, "none")
  /\ UNCHANGED <<persisted, fbUser, fbCache, now, minted, dateNow>>

\* A handler of an unmounted provider resumes with its credential: React
\* drops its setToken, setUser and setLoading, localStorage takes its write.
StaleAuthFetchOk(u) ==
  /\ staleAuth[u] > 0
  /\ minted < MaxTokens
  /\ staleAuth' = [staleAuth EXCEPT ![u] = @ - 1]
  /\ minted' = minted + 1
  /\ fbCache' = [fbCache EXCEPT ![u] = Mint(u)]
  /\ persisted' = Mint(u)
  /\ last' = Step("staleGetIdToken", "none", u, Mint(u), TRUE, "none")
  /\ UNCHANGED <<user, token, loading, timers, notified, fbUser, pendingAuth,
                 pendingRefresh, now, inflight, page, subs, staleRefresh, library>>

\* A handler of an unmounted provider resumes with the fetch rejected.
StaleAuthFetchFail(u) ==
  /\ staleAuth[u] > 0
  /\ staleAuth' = [staleAuth EXCEPT ![u] = @ - 1]
  /\ persisted' = NoToken
  /\ last' = Step("staleGetIdToken", "none", u, NoToken, FALSE, "none")
  /\ UNCHANGED <<user, token, loading, timers, provider, now, inflight, page,
                 subs, staleRefresh, library>>

\* A renewal of an unmounted provider resumes with the renewed credential.
StaleRefreshOk(u) ==
  /\ staleRefresh[u] > 0
  /\ minted < MaxTokens
  /\ staleRefresh' = [staleRefresh EXCEPT ![u] = @ - 1]
  /\ minted' = minted + 1
  /\ fbCache' = [fbCache EXCEPT ![u] = Mint(u)]
  /\ persisted' = Mint(u)
  /\ last' = Step("staleRefresh", "none", u, Mint(u), TRUE, "none")
  /\ UNCHANGED <<user, token, loading, timers, notified, fbUser, pendingAuth,
                 pendingRefresh, now, inflight, page, subs, staleAuth, library>>

\* A renewal of an unmounted provider resumes rejected: the catch logs.
StaleRefreshFailed(u) ==
  /\ staleRefresh[u] > 0
  /\ staleRefresh' = [staleRefresh EXCEPT ![u] = @ - 1]
  /\ last' = Step("staleRefresh", "none", u, NoToken, FALSE, "none")
  /\ UNCHANGED <<session, provider, now, inflight, page, subs, staleAuth, library>>

\* ------------------------------------------------------------ specification

Init ==
  /\ user = NoUser
  /\ token = NoToken
  /\ loading = TRUE
  /\ timers = {}
  /\ notified = FALSE
  /\ fbUser \in {NoUser, "A"}
  /\ \E e \in InitExps :
       fbCache = [u \in Users |->
                    IF u = fbUser THEN [uid |-> u, exp |-> e, n |-> 1] ELSE NoToken]
  /\ persisted \in {NoToken, StaleToken}
  /\ pendingAuth = [u \in Users |-> 0]
  /\ pendingRefresh = [u \in Users |-> 0]
  /\ now = 0
  /\ minted = 1
  /\ inflight = <<>>
  /\ page = "library"
  /\ subs = 1
  /\ staleAuth = [u \in Users |-> 0]
  /\ staleRefresh = [u \in Users |-> 0]
  /\ videos = <<>>
  /\ loadingVideos = TRUE
  /\ searchResults = <<>>
  /\ error = <<>>
  /\ deleteError = <<>>
  /\ deletingId = "null"
  /\ uploading = FALSE
  /\ dateNow = DateNowEpoch
  /\ last = Step("mount", "none", NoUser, NoToken, TRUE, "none")

Next ==
  \/ InitialNotify
  \/ \E u \in Users : AuthFetchOk(u)
  \/ \E u \in Users : AuthFetchFail(u)
  \/ \E u \in Users : SignInOk(u)
  \/ \E u \in Users : SignUpOk(u)
  \/ SignInRejected
  \/ SignUpRejected
  \/ LogoutOk
  \/ LogoutFailed
  \/ \E u \in Users \cup {NoUser} : ExternalChange(u)
  \/ \E t \in timers : TimerFire(t)
  \/ \E u \in Users : RefreshOk(u)
  \/ \E u \in Users : RefreshFailed(u)
  \/ Tick

Spec == Init /\ [][Next]_vars

\* The gateway client next to a session in which one user signs in and out
\* in this tab; the clock stands still, so no renewal is due.
NextApi ==
  \/ InitialNotify
  \/ \E u \in Users : AuthFetchOk(u)
  \/ \E u \in Users : AuthFetchFail(u)
  \/ SignInOk("A")
  \/ LogoutOk
  \/ \E m \in Methods : ApiCall(m)
  \/ \E i \in 1..MaxInFlight, status \in StatusCodes, body \in Bodies :
       ApiRespond(i, status, body)
  \/ \E i \in 1..MaxInFlight : ApiNetworkError(i)

SpecApi == Init /\ [][NextApi]_vars

\* The library page through one stay of a signed-in user: the session is
\* established and the page loads, uploads, deletes and searches.
NextLibrary ==
  \/ InitialNotify
  \/ \E u \in Users : AuthFetchOk(u)
  \/ \E u \in Users : AuthFetchFail(u)
  \/ SignInOk("A")
  \/ LoadVideos
  \/ \E i \in 1..MaxInFlight, r \in Results("getUserVideos") : LoadVideosDone(i, r)
  \/ \E title \in Titles : HandleUpload(title)
  \/ \E i \in 1..MaxInFlight, r \in Results("uploadVideo") : HandleUploadDone(i, r)
  \/ \E videoId \in VideoIds : HandleDelete(videoId)
  \/ \E i \in 1..MaxInFlight, r \in Results("deleteVideo") : HandleDeleteDone(i, r)
  \/ HandleSearch
  \/ \E i \in 1..MaxInFlight, r \in Results("globalSearch") : HandleSearchDone(i, r)
  \/ ClearSearch

SpecLibrary == Init /\ [][NextLibrary]_vars

\* The session manager across navigation between the two pages.
NextPages ==
  \/ InitialNotify
  \/ \E u \in Users : AuthFetchOk(u)
  \/ \E u \in Users : AuthFetchFail(u)
  \/ SignInOk("A")
  \/ LogoutOk
  \/ \E t \in timers : TimerFire(t)
  \/ \E u \in Users : RefreshOk(u)
  \/ \E u \in Users : RefreshFailed(u)
  \/ Tick
  \/ \E p \in Pages : Navigate(p)
  \/ \E u \in Users : StaleAuthFetchOk(u)
  \/ \E u \in Users : StaleAuthFetchFail(u)
  \/ \E u \in Users : StaleRefreshOk(u)
  \/ \E u \in Users : StaleRefreshFailed(u)

SpecPages == Init /\ [][NextPages]_vars

\* ------------------------------------------------------------------ claims

\* C1: in every reachable state of the session manager the identity (user)
\* and the credential (token) are both present or both absent.
C1_IdentityAndCredentialTogether == (user = NoUser) <=> (token = NoToken)

\* C2: whenever logout was invoked, the persisted credential and the
\* in-memory session (user, token) are cleared afterwards, also when the
\* provider's sign-out call failed.
C2_LogoutAlwaysClears ==
  last.op = "logout" =>
    user = NoUser /\ token = NoToken /\ persisted = NoToken

\* C3: a gateway method called while no credential is persisted throws the
\* "no authentication token" error and sends no request, whichever of the
\* eight methods it is.
C3_NoCredentialNoRequest ==
  [][(last'.op = "apiCall" /\ persisted = NoToken) =>
       /\ last'.out = "thrown"
       /\ last'.message = NoTokenMessage
       /\ inflight' = inflight]_vars

C3_Witness ==
  /\ last.op = "apiCall"
  /\ last.m = "uploadVideo"
  /\ last.out = "thrown"
  /\ persisted = NoToken
  /\ ~loading

C5_CredentialReadIsFresh ==
  (user # NoUser /\ GetAuthHeaders(persisted).ok) =>
    ~Expired(GetAuthHeaders(persisted).bearer)

\* C6: a signIn the provider rejects throws an authentication error to its
\* caller and leaves the session (user, token, loading) and the persisted
\* credential as they were; an absent session stays absent.
C6_RejectedSignInChangesNothing ==
  [][(last'.op = "signIn" /\ ~last'.accepted) =>
       /\ last'.err = "AuthError"
       /\ UNCHANGED <<user, token, loading, persisted>>]_vars

C6_Witness ==
  /\ last.op = "signIn"
  /\ ~last.accepted
  /\ last.err = "AuthError"
  /\ ~loading
  /\ user = NoUser
  /\ token = NoToken
  /\ persisted = NoToken

\* C7: when the handler of a provider notification has completed, loading is
\* false; when the notification carried a user and the credential was
\* obtained, the session's user is that user and the session's credential
\* and the persisted credential are both the credential obtained.
C7_HandlerCompletion ==
  /\ last.handler \in {"set", "clear"} => ~loading
  /\ last.handler = "set" =>
       /\ last.note # NoUser
       /\ last.tok # NoToken
       /\ user = last.note
       /\ token = last.tok
       /\ persisted = last.tok

C7_Witness ==
  /\ last.op = "getIdToken"
  /\ last.handler = "set"
  /\ user = "A"
  /\ token = persisted
  /\ token.n > 1

\* C8: a failed periodic renewal leaves the session's user, credential and
\* loading flag, the persisted credential, the provider's user and the
\* refresh timer as they were: no sign-out is forced.
C8_FailedRenewalChangesNothing ==
  [][(last'.op = "refresh" /\ ~last'.accepted) =>
       UNCHANGED <<user, token, loading, persisted, fbUser, timers>>]_vars

C8_Witness ==
  /\ last.op = "refresh"
  /\ ~last.accepted
  /\ user = last.note
  /\ token # NoToken
  /\ persisted = token

\* C9: once a provider-reported sign-out has been processed (the provider
\* has no user and its notification has been handled), the session's
\* credential and the persisted credential are absent until the provider
\* signs a user in again.
C9_SignedOutStaysCleared ==
  (notified /\ fbUser = NoUser) => (token = NoToken /\ persisted = NoToken)

\* C10: while loading is true AuthGuard renders neither the protected content
\* nor the login form; once loading is false it renders the protected
\* content exactly when the session has a user, and the login form otherwise.
C10_AuthGuardGates ==
  /\ loading => AuthGuard(user, loading) \notin {"children", "LoginForm"}
  /\ ~loading =>
       /\ (AuthGuard(user, loading) = "children") <=> (user # NoUser)
       /\ (AuthGuard(user, loading) = "LoginForm") <=> (user = NoUser)

C10_Witness ==
  /\ ~loading
  /\ user # NoUser
  /\ AuthGuard(user, loading) = "children"

\* C11: a deleteVideo that fails (the call throws, the server answers 404,
\* the fetch rejects) leaves the library's video list as it was and puts the
\* failure's message in deleteError; the list loses entries in handleDelete
\* only on a delete that succeeded, and then exactly those with the id.
C11_FailedDeleteKeepsList ==
  [][last'.op = "handleDelete" =>
       /\ last'.out = "thrown" =>
            /\ videos' = videos
            /\ deleteError' = last'.message
            /\ deleteError' # <<>>
       /\ last'.out = "sent" => videos' = videos
       /\ last'.out = "returned" => videos' = Filter(videos, last'.arg)
       /\ videos' # videos => last'.out = "returned"]_vars

C11_Witness ==
  /\ last.op = "handleDelete"
  /\ last.out = "thrown"
  /\ last.status = 404
  /\ deleteError = last.message
  /\ \E k \in DOMAIN videos : videos[k].id = last.arg

\* C12: an upload the server answers with {video_id: v} adds exactly one
\* entry, at the front of the list, with indexingStatus PENDING, storage
\* path /videos/v and the title that was submitted; an upload that fails
\* leaves the list as it was.
C12_UploadAddsOneEntryInFront ==
  [][last'.op = "handleUpload" =>
       IF last'.out = "returned"
       THEN /\ Len(videos') = Len(videos) + 1
            /\ Tail(videos') = videos
            /\ Head(videos').indexingStatus = "PENDING"
            /\ Head(videos').minioPath =
                 <<"/videos/", ParseJson(last'.body).video_id.n>>
            /\ Head(videos').title = last'.arg
       ELSE videos' = videos]_vars

C12_Witness ==
  /\ last.op = "handleUpload"
  /\ last.out = "returned"
  /\ Len(videos) = 3
  /\ Head(videos).title = "Clip"
  /\ videos[2].title = "Clip"
  /\ videos[3].title = "Test"

\* C13: the list getUserVideos returns, which loadVideos stores, has the
\* length and the order of the server's array; each record's indexingStatus,
\* createdAt and minioPath are the row's indexing_status, created_at and
\* minio_path, and every field of the row is in the record with its value.
C13_ListMapsRowByRow ==
  (last.op = "loadVideos" /\ last.out = "returned") =>
    /\ Len(videos) = Len(ParseJson(last.body))
    /\ \A i \in DOMAIN videos :
         /\ videos[i].indexingStatus = ParseJson(last.body)[i].indexing_status
         /\ videos[i].createdAt = ParseJson(last.body)[i].created_at
         /\ videos[i].minioPath = ParseJson(last.body)[i].minio_path
         /\ \A f \in DOMAIN ParseJson(last.body)[i] :
              /\ f \in DOMAIN videos[i]
              /\ videos[i][f] = ParseJson(last.body)[i][f]

C13_Witness ==
  /\ last.op = "loadVideos"
  /\ last.out = "returned"
  /\ Len(videos) = 2
  /\ videos[1].id = Num(2)
  /\ videos[1].indexingStatus = "INDEXING"
  /\ videos[2].indexingStatus = "COMPLETED"

\* The indexing_status values an answer of the server carries for the video
\* with the given id: those of the rows of a list; an upload's answer and a
\* search hit carry none.
StatusesFetched(r, id) ==
  IF r.out = "returned" /\ r.m = "getUserVideos"
  THEN {row.indexing_status : row \in {ParseJson(r.body)[k] : k \in DOMAIN ParseJson(r.body)}
                                       \cap {x \in {Row1, Row2, Row3} : x.id = id}}
  ELSE {}

Entries(list) == {list[k] : k \in DOMAIN list}

\* C14: the client never writes indexingStatus: an entry that a step puts
\* into the library list or the search-result list carries an
\* indexingStatus that the answer handled in that step holds for that video.
C14_StatusOnlyFromServer ==
  [][\A e \in (Entries(videos') \ Entries(videos))
              \cup (Entries(searchResults') \ Entries(searchResults)) :
       e.indexingStatus \in StatusesFetched(last', e.id)]_vars

\* C15: the status badge is defined for each of PENDING, INDEXING, COMPLETED
\* and FAILED, the four get four different labels and four different
\* variants, and every card on screen shows the badge of its entry's status.
C15_StatusBadgeTotalAndDistinct ==
  /\ \A s \in Statuses :
       /\ GetStatusText(s) \in {"Ready", "Processing...", "Queued", "Failed"}
       /\ GetStatusVariant(s) \in {"default", "secondary", "outline", "destructive"}
       /\ GetStatusIcon(s)[1] \in {"CheckCircle", "Clock", "AlertCircle"}
  /\ \A s, t \in Statuses :
       s # t => /\ GetStatusText(s) # GetStatusText(t)
                /\ GetStatusVariant(s) # GetStatusVariant(t)
  /\ \A j, k \in DOMAIN Displayed :
       /\ Displayed[j].indexingStatus \in Statuses
       /\ (Badge(Displayed[j]).text = Badge(Displayed[k]).text
             \/ Badge(Displayed[j]).variant = Badge(Displayed[k]).variant)
            => Displayed[j].indexingStatus = Displayed[k].indexingStatus

C15_Witness ==
  /\ Len(Displayed) = 3
  /\ {Displayed[k].indexingStatus : k \in DOMAIN Displayed}
       = {"PENDING", "INDEXING", "COMPLETED"}
  /\ {Badge(Displayed[k]).text : k \in DOMAIN Displayed}
       = {"Queued", "Processing...", "Ready"}

C17_OneRefreshTimerPerSession ==
  [][/\ user' # NoUser =>
          /\ Cardinality(timers') = 1
          /\ \A t \in timers' :
               t.u = user' /\ now' <= t.due /\ t.due <= now' + RefreshInterval
     /\ user' = NoUser => timers' = {}
     /\ last'.op = "timer" =>
          /\ timers = {Interval(user, now)}
          /\ timers' = {Interval(user, now + RefreshInterval)}
          /\ pendingRefresh'[user] = pendingRefresh[user] + 1
     /\ (last'.op = "refresh" /\ last'.accepted) =>
          /\ minted' = minted + 1
          /\ last'.tok.n = minted'
          /\ last'.tok.uid = last'.note
     /\ (user' # user /\ user' # NoUser) =>
          timers' = {Interval(user', now + RefreshInterval)}]_vars

C17_Witness ==
  /\ last.op = "timer"
  /\ user = "B"
  /\ fbCache["A"] # NoToken
  /\ timers = {Interval("B", now + RefreshInterval)}
  /\ pendingRefresh["B"] = 1

\* C18: two renewals in flight at once do no harm.  A renewal that
\* completes never changes the user; one that succeeds leaves the session
\* credential and the persisted credential both equal to the credential it
\* was issued, one that fails leaves both as they were; so when the second
\* of two overlapping renewals completes right after the first, the two
\* credentials are equal and are a credential issued by one of the two.
C18_OverlappingRenewalsBenign ==
  [][last'.op = "refresh" =>
       /\ user' = user
       /\ IF last'.accepted
          THEN token' = last'.tok /\ persisted' = last'.tok
          ELSE token' = token /\ persisted' = persisted
       /\ (last.op = "refresh" /\ last.accepted) =>
            /\ token' = persisted'
            /\ token' \in {last.tok, last'.tok}
            /\ token' # NoToken]_vars

C18_Witness ==
  /\ last.op = "refresh"
  /\ last.accepted
  /\ pendingRefresh[last.note] = 1
  /\ user = last.note
  /\ token = last.tok
  /\ persisted = last.tok

\* C19: a call of a gateway method sends at most one request, and only a
\* call sends one; an answer that is no success, and a fetch that rejects,
\* take the request out of flight, send nothing again and throw to the
\* caller.
C19_OneRequestPerCall ==
  [][/\ last'.op = "apiCall" =>
          IF last'.out = "sent"
          THEN /\ Len(inflight') = Len(inflight) + 1
               /\ SubSeq(inflight', 1, Len(inflight)) = inflight
               /\ inflight'[Len(inflight')].m = last'.m
          ELSE inflight' = inflight
     /\ last'.op \in {"apiAnswer", "apiNetErr"} =>
          /\ \E i \in DOMAIN inflight :
               inflight[i].m = last'.m /\ inflight' = Remove(inflight, i)
          /\ (last'.op = "apiNetErr" \/ ~ResponseOk(last'.status)) =>
               last'.out = "thrown" /\ last'.message # <<>>
     /\ Len(inflight') > Len(inflight) => last'.op = "apiCall"]_vars

C19_Witness ==
  /\ last.op = "apiAnswer"
  /\ last.status = 500
  /\ last.out = "thrown"
  /\ inflight = <<>>

\* The steps of the session manager that run its provider callback or a
\* renewal its refresh timer started.
SessionWrites(step) ==
  \/ step.op = "refresh"
  \/ /\ step.op \in {"subscribe", "getIdToken", "signIn", "signUp", "logout", "external"}
     /\ step.handler \in {"set", "clear"}

\* C20: the gateway methods and the operations of the library page (load,
\* upload, delete, search, clear) leave the persisted credential and the
\* session's user, credential and loading flag as they are; a step that
\* changes any of the four is the provider callback or a renewal of the
\* session manager.
C20_OnlySessionManagerWrites ==
  [][/\ last'.op \in {"loadVideos", "handleUpload", "handleDelete", "handleSearch",
                      "clearSearch", "apiCall", "apiAnswer", "apiNetErr"}
          => UNCHANGED <<user, token, loading, persisted>>
     /\ <<user, token, loading, persisted>>' # <<user, token, loading, persisted>>
          => SessionWrites(last')]_vars

C20_Witness ==
  /\ last.op = "loadVideos"
  /\ last.out = "thrown"
  /\ last.status = 404
  /\ user = "A"
  /\ ~loading
  /\ token = persisted
  /\ persisted # NoToken

\* No handler of the subscription and no renewal is suspended on its await,
\* in the mounted provider or in one since unmounted.
NoHandlerRunning ==
  \A u \in Users :
    /\ pendingAuth[u] = 0
    /\ pendingRefresh[u] = 0
    /\ staleAuth[u] = 0
    /\ staleRefresh[u] = 0

\* C21: whenever loading is false and no handler is in the middle of its
\* execution, the credential in the session's state is the credential in
\* localStorage: both absent, or both the same token.
C21_CredentialEqualsPersisted ==
  (~loading /\ NoHandlerRunning) => token = persisted

\* C22: when the last of the suspended handlers has finished, the session
\* shows the provider's most recent notification, whose user is the
\* provider's current user: a handler that got its credential, or that
\* belongs to an earlier notification, leaves the session with that user
\* and with a credential of that user in state and in localStorage (with no
\* user and no credential when the provider has none).
C22_LatestNotificationWins ==
  (/\ last.op = "getIdToken"
   /\ \A u \in Users : pendingAuth[u] = 0
   /\ last.accepted \/ last.note # fbUser)
    => /\ user = fbUser
       /\ token.uid = fbUser
       /\ persisted = token

\* The ids under which the server knows videos: those of its rows and the
\* video_id it answers an upload with.  A path `/api/videos/${videoId}` is
\* the same text for a number and for the string of its digits.
KnownToServer ==
  {Row1.id.n, Row2.id.n, Row3.id.n, ParseJson("{video_id:3}").video_id.n}

\* C23: every entry of the library's video list carries an id under which
\* the server knows a video, so the requests that open or delete a listed
\* entry, one just uploaded included, address a record of the server.
C23_EntriesCarryServerId ==
  \A k \in DOMAIN videos : videos[k].id.n \in KnownToServer

====
